---- MODULE Spec2Model ----
(***************************************************************************)
(* A model of exceltable: the table reader (reader.py: BaseReader, Reader, *)
(* DictReader) and the command line (command.py: __main__ and main).       *)
(*                                                                         *)
(* Python values are records Val(t, s, m, e) with a type tag t:            *)
(*   "none"      None                                                      *)
(*   "str"       a string, s its characters (a sequence of 1-char strings) *)
(*   "int"       the integer m                                             *)
(*   "float"     the float m * 10^(-e), normalised (e = 0 or m % 10 # 0)   *)
(*   "datetime"  day m, e seconds after midnight                           *)
(*   "date"      day m                                                     *)
(* so that 3.0 and 3, "" and None, are different values, as in Python.     *)
(***************************************************************************)
EXTENDS Integers, Sequences, FiniteSets, TLC

VARIABLES sheet, merges, cfg, pc, cursor, fieldnames, CSVRecord, gen, iters,
          out, raised, calls, ended, cmd

vars == <<sheet, merges, cfg, pc, cursor, fieldnames, CSVRecord, gen, iters,
          out, raised, calls, ended, cmd>>

\* ------------------------------------------------------------ bounds

\* Data rows of a sheet, below the header rows.
MaxRows == 3
\* Iterations started over one reader (calls of iter(reader)).
MaxIters == 2
\* Characters of a command-line ROW/COL argument.
MaxLen == 4

\* ------------------------------------------------------------ Python values

Val(t, s, m, e) == [t |-> t, s |-> s, m |-> m, e |-> e]
None == Val("none", <<>>, 0, 0)
StrV(s) == Val("str", s, 0, 0)
IntV(n) == Val("int", <<>>, n, 0)
FloatV(m, e) == Val("float", <<>>, m, e)
Datetime(d, tm) == Val("datetime", <<>>, d, tm)
Date(d) == Val("date", <<>>, d, 0)
\* A callable (a caller-supplied predicate) and a raised exception.
Callable == Val("callable", <<>>, 0, 0)
Error(name) == Val("error", name, 0, 0)

Range(f) == {f[i] : i \in DOMAIN f}
Min(a, b) == IF a < b THEN a ELSE b

\* bool(v)
Truthy(v) ==
    CASE v.t = "none" -> FALSE
      [] v.t = "str" -> v.s # <<>>
      [] v.t \in {"int", "float"} -> v.m # 0
      [] OTHER -> TRUE

\* a == b: an int and a float are equal when they are the same number.
PyEq(a, b) ==
    IF a.t \in {"int", "float"} /\ b.t \in {"int", "float"}
    THEN a.m = b.m /\ a.e = b.e
    ELSE a = b

DigitChars == <<"0", "1", "2", "3", "4", "5", "6", "7", "8", "9">>

RECURSIVE NatToStr(_)
NatToStr(n) ==
    IF n < 10 THEN <<DigitChars[n + 1]>>
    ELSE NatToStr(n \div 10) \o <<DigitChars[(n % 10) + 1]>>

RECURSIVE Pow10(_)
Pow10(e) == IF e = 0 THEN 1 ELSE 10 * Pow10(e - 1)

RECURSIVE ZeroPad(_, _)
ZeroPad(s, w) == IF Len(s) >= w THEN s ELSE ZeroPad(<<"0">> \o s, w)

\* str(v) of a header cell value (None, a string, an int or a float).
str(v) ==
    CASE v.t = "str" -> v.s
      [] v.t = "int" -> NatToStr(v.m)
      [] v.t = "float" ->
            NatToStr(v.m \div Pow10(v.e)) \o <<".">> \o
            (IF v.e = 0 THEN <<"0">>
             ELSE ZeroPad(NatToStr(v.m % Pow10(v.e)), v.e))
      [] OTHER -> <<"N", "o", "n", "e">>

EndsWith(s, suffix) ==
    /\ Len(s) >= Len(suffix)
    /\ SubSeq(s, Len(s) - Len(suffix) + 1, Len(s)) = suffix

\* sep.join(parts)
RECURSIVE Join(_, _)
Join(sep, parts) ==
    IF parts = <<>> THEN <<>>
    ELSE IF Len(parts) = 1 THEN parts[1]
    ELSE parts[1] \o sep \o Join(sep, Tail(parts))

\* s.replace(ch, "")
RECURSIVE Remove(_, _)
Remove(s, ch) ==
    IF s = <<>> THEN <<>>
    ELSE (IF Head(s) = ch THEN <<>> ELSE <<Head(s)>>) \o Remove(Tail(s), ch)

NEWLINE == "\n"
\* datetime.time(0): zero seconds after midnight.
NOTIME == 0

Letters == <<"A", "B", "C", "D", "E", "F", "G", "H", "I", "J", "K", "L", "M",
             "N", "O", "P", "Q", "R", "S", "T", "U", "V", "W", "X", "Y", "Z">>

\* openpyxl.utils.cell.get_column_letter(n), n >= 1: 1 -> A, 26 -> Z, 27 -> AA.
RECURSIVE get_column_letter(_)
get_column_letter(n) ==
    IF n <= 26 THEN <<Letters[n]>>
    ELSE get_column_letter((n - 1) \div 26) \o <<Letters[((n - 1) % 26) + 1]>>

\* ------------------------------------------------------------ reader.py

\* A list of values, as handed to a caller's predicate.
List(items) == [t |-> "list", items |-> items]

\* The caller-supplied predicate of a callable stop_row / stop_col, here
\*   lambda a: a == "E" or (isinstance(a, list) and "E" in a)
\* which answers for a single value and for a list of values alike.
criteria(arg) ==
    IF arg.t = "list"
    THEN \E i \in DOMAIN arg.items : arg.items[i] = StrV(<<"E">>)
    ELSE arg = StrV(<<"E">>)

\* BaseReader._isbreak_factory(criteria)(row_or_col, value)
isbreak(crit, row_or_col, value) ==
    CASE crit.t = "int" -> row_or_col = crit.m
      [] crit.t \in {"float", "str"} -> PyEq(value, crit)
      [] crit.t = "callable" -> criteria(value)
      [] OTHER -> ~Truthy(value)

\* self.sheet.iter_rows(min_row=start_row + 1, min_col=start_col + 1,
\* values_only=True): the n-th row it delivers (n >= 1), the cells from
\* start_col on.
IterRow(sh, start_row, start_col, n) ==
    SubSeq(sh[start_row + n], start_col + 1, Len(sh[start_row + n]))

\* Rows iter_rows has left to deliver after n were taken.
RowsLeft(sh, start_row, n) == Len(sh) - start_row - n

\* BaseReader._mergearea(row, col): (rlo, rhi, clo, chi) of the merged range
\* holding the cell, or <<>> for None.  Ranges are openpyxl's, 1-based and
\* inclusive; the ranges of a sheet do not overlap.
mergearea(mr, row, col) ==
    LET hit == {r \in mr : /\ r.min_row <= row + 1 /\ row + 1 <= r.max_row
                           /\ r.min_col <= col + 1 /\ col + 1 <= r.max_col}
    IN IF hit = {} THEN <<>>
       ELSE LET r == CHOOSE x \in hit : TRUE
            IN <<r.min_row - 1, r.max_row - 1, r.min_col - 1, r.max_col - 1>>

IndexError == Error(<<"IndexError">>)
TypeError == Error(<<"TypeError">>)
ValueError == Error(<<"ValueError">>)
AttributeError == Error(<<"AttributeError">>)
StopIteration == Error(<<"StopIteration">>)

\* The value v of one header cell in _get_fields (lines 165-175); rows are the
\* header rows as delivered, row and col count from 0 within them.
HeaderCell(mr, rows, start_row, start_col, row, col) ==
    LET absrow == start_row + row
        abscol == start_col + col
        ma == mergearea(mr, absrow, abscol)
    IN IF ma = <<>>
       THEN (IF col < Len(rows[row + 1]) THEN rows[row + 1][col + 1]
             ELSE StrV(<<>>))
       ELSE IF ma[1] = absrow
       THEN (IF ma[3] < Len(rows[row + 1]) THEN rows[row + 1][ma[3] + 1]
             ELSE IndexError)
       ELSE None

\* What a header cell value adds to f (lines 176-180).
Contribution(v) ==
    IF ~Truthy(v) THEN <<>>
    ELSE LET s == str(v)
         IN <<IF EndsWith(s, <<".", "0">>) THEN SubSeq(s, 1, Len(s) - 2) ELSE s>>

\* f of one column: the contributions of the header rows from row on.
RECURSIVE ColumnParts(_, _, _, _, _, _, _)
ColumnParts(mr, rows, start_row, start_col, header_rows, row, col) ==
    IF row >= header_rows THEN <<>>
    ELSE Contribution(HeaderCell(mr, rows, start_row, start_col, row, col))
         \o ColumnParts(mr, rows, start_row, start_col, header_rows, row + 1, col)

ColumnFails(mr, rows, start_row, start_col, header_rows, col) ==
    \E row \in 0 .. header_rows - 1 :
        HeaderCell(mr, rows, start_row, start_col, row, col) = IndexError

\* field = "_".join(f).replace(NEWLINE, "") (line 181).
Field(mr, rows, start_row, start_col, header_rows, col) ==
    Remove(Join(<<"_">>, ColumnParts(mr, rows, start_row, start_col,
                                     header_rows, 0, col)), NEWLINE)

MaxLenOf(rows) ==
    CHOOSE n \in {Len(rows[i]) : i \in DOMAIN rows} :
        \A i \in DOMAIN rows : Len(rows[i]) <= n

\* The column loop of _get_fields (lines 161-185) from column col on, fields
\* being the names appended so far.  The result is the list of names, or
\* exc = IndexError when a merged header cell is read outside its row.
RECURSIVE ColumnLoop(_, _, _, _, _, _, _, _)
ColumnLoop(mr, rows, start_row, start_col, stop_col, header_rows, col, fields) ==
    IF col >= MaxLenOf(rows) THEN [exc |-> None, fields |-> fields]
    ELSE IF ColumnFails(mr, rows, start_row, start_col, header_rows, col)
    THEN [exc |-> IndexError, fields |-> <<>>]
    ELSE LET abscol == start_col + col
             field == Field(mr, rows, start_row, start_col, header_rows, col)
             name == IF field # <<>> THEN field
                     ELSE get_column_letter(abscol + 1)
         IN IF isbreak(stop_col, abscol, StrV(field))
            THEN [exc |-> None, fields |-> fields]
            ELSE ColumnLoop(mr, rows, start_row, start_col, stop_col,
                            header_rows, col + 1, Append(fields, name))

\* alt = f"{v}_{n}"
Alt(v, n) == v \o <<"_">> \o NatToStr(n)

\* The subscript 1 whatever the earlier names are.
Subscript_always_1(v, earlier) == Alt(v, 1)

\* The first n of count(1) whose alt is not among the earlier names.
Subscript(v, earlier) ==
    Alt(v, CHOOSE n \in 1 .. Len(earlier) + 1 :
               /\ Alt(v, n) \notin Range(earlier)
               /\ \A j \in 1 .. n - 1 : Alt(v, j) \in Range(earlier))

\* "Add subscriptions for duplicate field names" (lines 187-193), from the
\* k-th name on (k counts from 1).
RECURSIVE Subscriptions(_, _)
Subscriptions(fields, k) ==
    IF k > Len(fields) THEN fields
    ELSE LET v == fields[k]
             earlier == SubSeq(fields, 1, k - 1)
         IN IF v \notin Range(earlier) THEN Subscriptions(fields, k + 1)
            ELSE Subscriptions([fields EXCEPT ![k] = Subscript(v, earlier)],
                               k + 1)

\* The rows [next(self._rows) for _ in range(header_rows)] (line 159) takes
\* from self._rows: header_rows of them, or the rows there are when next
\* raises StopIteration before that.
HeaderRowsTaken(sh, start_row, header_rows) ==
    IF RowsLeft(sh, start_row, 0) <= 0 THEN 0
    ELSE Min(header_rows, RowsLeft(sh, start_row, 0))

\* BaseReader._get_fields(header_rows): the field names, or the exception.
\* next(self._rows) raises StopIteration when the sheet has fewer than
\* header_rows rows from start_row on (line 159).
get_fields(sh, mr, start_row, start_col, stop_col, header_rows) ==
    IF RowsLeft(sh, start_row, 0) < header_rows
    THEN [exc |-> StopIteration, fields |-> <<>>]
    ELSE
    LET rows == [n \in 1 .. header_rows |-> IterRow(sh, start_row, start_col, n)]
        got == ColumnLoop(mr, rows, start_row, start_col, stop_col,
                          header_rows, 0, <<>>)
    IN IF got.exc # None THEN got
       ELSE [exc |-> None, fields |-> Subscriptions(got.fields, 1)]

\* [self.empty if v is None else v for v in row] (line 228)
EmptySubst(row, empty) ==
    [i \in DOMAIN row |-> IF row[i] = None THEN empty ELSE row[i]]

\* v in (None, "")
Blank(v) == v = None \/ v = StrV(<<>>)

\* [p if v in (None, "") else v for (v, p) in zip(values, prev)] (lines
\* 231-232): zip ends with the shorter of the two.
Fill(values, prev) ==
    [i \in 1 .. Min(Len(values), Len(prev)) |->
        IF Blank(values[i]) THEN prev[i] ELSE values[i]]

\* One value through BaseReader._trim (lines 199-203).
TrimValue(v) ==
    IF v.t = "float" /\ v.e = 0 THEN IntV(v.m)
    ELSE IF v.t = "datetime" /\ v.e = NOTIME THEN Date(v.m)
    ELSE v

\* What the generator _trim(values) yields.
trim(values) == [i \in DOMAIN values |-> TrimValue(values[i])]

\* An iterable local of __iter__: a list, or a generator with the items it
\* has yet to yield; Unbound is a local never assigned.
ListOf(items) == [kind |-> "list", items |-> items]
GenOf(items) == [kind |-> "gen", items |-> items]
Unbound == [kind |-> "unbound", items |-> <<>>]

\* The frame of the generator __iter__ returns, before there is one.
NoGen == [st |-> "none", it |-> 0, from |-> 0, absrow |-> 0,
          prev |-> Unbound, values |-> Unbound]

\* What is left of an iterable after n of its items were taken: a list is
\* iterated afresh every time, a generator only once.
After(it, n) ==
    IF it.kind = "gen"
    THEN GenOf(SubSeq(it.items, Min(n, Len(it.items)) + 1, Len(it.items)))
    ELSE it

WordChars == Range(Letters) \cup Range(DigitChars) \cup {"_"}

\* re.sub(r"\W", "_", k) (line 244)
SubNonWord(k) == [i \in DOMAIN k |-> IF k[i] \in WordChars THEN k[i] ELSE "_"]

\* Whether namedtuple("CSVRecord", keys) accepts the names: identifiers that
\* do not start with an underscore, no name twice.  (No Python keyword is
\* spelled with the characters of WordChars.)
NamedtupleOk(keys) ==
    /\ \A i \in DOMAIN keys :
          /\ keys[i] # <<>>
          /\ keys[i][1] \in Range(Letters)
    /\ \A i, j \in DOMAIN keys : keys[i] = keys[j] => i = j

NoRecord == [shape |-> "none", keys |-> <<>>, vals |-> <<>>]

\* DictReader._build(keys, values) (line 252): OrderedDict(zip(keys, values)).
\* zip asks keys first, so it takes min(len(keys), len(values)) items of values
\* when keys is the shorter, and all of them otherwise.  Field names are
\* distinct, so no pair overwrites another.
DictBuild(keys, values) ==
    LET n == Min(Len(keys), Len(values.items))
    IN [exc |-> None,
        rec |-> [shape |-> "OrderedDict", keys |-> SubSeq(keys, 1, n),
                 vals |-> SubSeq(values.items, 1, n)],
        values |-> After(values, n),
        CSVRecord |-> <<>>]

\* Reader._build(keys, values) (lines 240-246); record is self.CSVRecord, <<>>
\* while the attribute is not set, else <<its field names>>.
ReaderBuild(record, keys, values) ==
    LET names == [i \in DOMAIN keys |-> SubNonWord(keys[i])]
        made == IF record # <<>> THEN record
                ELSE IF NamedtupleOk(names) THEN <<names>> ELSE <<>>
    IN IF made = <<>>
       THEN [exc |-> ValueError, rec |-> NoRecord, values |-> values,
             CSVRecord |-> <<>>]
       ELSE IF Len(values.items) # Len(made[1])
       THEN [exc |-> TypeError, rec |-> NoRecord,
             values |-> After(values, Len(values.items)), CSVRecord |-> made]
       ELSE [exc |-> None,
             rec |-> [shape |-> "CSVRecord", keys |-> made[1],
                      vals |-> values.items],
             values |-> After(values, Len(values.items)), CSVRecord |-> made]

\* self._build(self.fieldnames, values) of the reader's class.
build(shape, record, keys, values) ==
    IF shape = "Reader" THEN ReaderBuild(record, keys, values)
    ELSE [DictBuild(keys, values) EXCEPT !.CSVRecord = record]

\* One resumption of the generator __iter__ returned (lines 223-235), from its
\* start or from the yield it is suspended at, up to its next yield, its end
\* or an exception.  g is the generator's frame, n the rows self._rows has
\* delivered so far; arg is what the caller's predicate was called with.
resume(sh, c, names, record, g, n) ==
    LET prev == IF g.st = "created"
                THEN (IF c.repeat THEN ListOf([i \in DOMAIN names |-> None])
                      ELSE Unbound)
                ELSE IF c.repeat THEN g.values ELSE g.prev
        absrow == IF g.st = "created" THEN c.start_row + c.header_rows
                  ELSE g.absrow
        done == [g EXCEPT !.st = "finished", !.prev = prev]
    IN IF RowsLeft(sh, c.start_row, n) <= 0
       THEN [how |-> "exhausted", gen |-> done, rec |-> NoRecord, exc |-> None,
             taken |-> 0, arg |-> <<>>, CSVRecord |-> record]
       ELSE
       LET row == IterRow(sh, c.start_row, c.start_col, n + 1)
           values == EmptySubst(row, c.empty)
           arg == IF Len(values) >= 1 /\ c.stop_row.t = "callable"
                  THEN <<values[1]>> ELSE <<>>
       IN IF Len(values) < 1 \/ isbreak(c.stop_row, absrow, values[1])
          THEN [how |-> "break", gen |-> done, rec |-> NoRecord, exc |-> None,
                taken |-> 1, arg |-> arg, CSVRecord |-> record]
          ELSE
          LET filled == IF c.repeat THEN Fill(values, prev.items) ELSE values
              local == IF c.trim THEN GenOf(trim(filled)) ELSE ListOf(filled)
              built == build(c.shape, record, names, local)
          IN IF built.exc # None
             THEN [how |-> "raise", gen |-> done, rec |-> NoRecord,
                   exc |-> built.exc, taken |-> 1, arg |-> arg,
                   CSVRecord |-> built.CSVRecord]
             ELSE [how |-> "yield",
                   gen |-> [g EXCEPT !.st = "suspended", !.prev = prev,
                                     !.values = built.values,
                                     !.absrow = absrow + 1],
                   rec |-> built.rec, exc |-> None, taken |-> 1, arg |-> arg,
                   CSVRecord |-> built.CSVRecord]

\* The reader state s after a resumption r of its generator: the generator's
\* frame, the rows taken from self._rows, and the histories.
Advanced(sh, c, s, r) ==
    LET at == c.start_row + s.cursor
        from == IF s.gen.st = "created" THEN at ELSE s.gen.from
    IN [how |-> r.how,
        rec |-> r.rec,
        gen |-> [r.gen EXCEPT !.from = from],
        cursor |-> s.cursor + r.taken,
        CSVRecord |-> r.CSVRecord,
        raised |-> r.exc,
        out |-> IF r.how = "yield"
                THEN Append(s.out, [it |-> s.gen.it, from |-> from, row |-> at,
                                    rec |-> r.rec])
                ELSE s.out,
        calls |-> IF r.arg = <<>> THEN s.calls
                  ELSE Append(s.calls,
                         [arg |-> r.arg[1],
                          row |-> List(EmptySubst(
                              IterRow(sh, c.start_row, c.start_col,
                                      s.cursor + 1), c.empty))]),
        ended |-> IF r.how = "yield" THEN s.ended
                  ELSE Append(s.ended, [it |-> s.gen.it, from |-> from,
                                        how |-> r.how, row |-> at])]

\* next(generator) on a reader in state s (its gen, cursor and CSVRecord, and
\* the histories out, calls and ended): the generator runs to its next yield,
\* its end or an exception.
advance(sh, c, names, s) ==
    Advanced(sh, c, s, resume(sh, c, names, s.CSVRecord, s.gen, s.cursor))

\* ------------------------------------------------------------ command.py

IsDigit(ch) == ch \in Range(DigitChars)

\* s.isdigit()
isdigit(s) == s # <<>> /\ \A i \in DOMAIN s : IsDigit(s[i])

IndexOf(seq, x) == CHOOSE i \in DOMAIN seq : seq[i] = x

\* int(s) of a string of digits.
RECURSIVE ParseInt(_)
ParseInt(s) ==
    IF s = <<>> THEN 0
    ELSE 10 * ParseInt(SubSeq(s, 1, Len(s) - 1))
         + IndexOf(DigitChars, s[Len(s)]) - 1

Count(s, ch) == Cardinality({i \in DOMAIN s : s[i] = ch})

\* Whether float(s) accepts s, for s made of the characters of CmdChars:
\* digits with at most one point and at least one digit.
FloatOk(s) ==
    /\ \A i \in DOMAIN s : IsDigit(s[i]) \/ s[i] = "."
    /\ Count(s, ".") <= 1
    /\ \E i \in DOMAIN s : IsDigit(s[i])

RECURSIVE Normalise(_, _)
Normalise(m, e) ==
    IF e > 0 /\ m % 10 = 0 THEN Normalise(m \div 10, e - 1) ELSE FloatV(m, e)

\* float(s), or ValueError.
float(s) ==
    IF ~FloatOk(s) THEN ValueError
    ELSE IF Count(s, ".") = 0 THEN FloatV(ParseInt(s), 0)
    ELSE LET p == IndexOf(s, ".")
         IN Normalise(ParseInt(SubSeq(s, 1, p - 1) \o SubSeq(s, p + 1, Len(s))),
                      Len(s) - p)

StartsWith(s, prefix) ==
    Len(s) >= Len(prefix) /\ SubSeq(s, 1, Len(prefix)) = prefix

\* _eval(s) (lines 72-81) of a string or an int; None is not passed to it by
\* __main__, which writes `x or default`.
eval(s) ==
    IF s.t # "str" THEN s
    ELSE LET x == s.s
         IN IF StartsWith(x, <<"T", ":">>) THEN StrV(SubSeq(x, 3, Len(x)))
            ELSE IF StartsWith(x, <<"T", "(">>) /\ EndsWith(x, <<")">>)
            THEN StrV(SubSeq(x, 3, Len(x) - 1))
            ELSE IF StartsWith(x, <<"N", ":">>) THEN float(SubSeq(x, 3, Len(x)))
            ELSE IF StartsWith(x, <<"N", "(">>) /\ EndsWith(x, <<")">>)
            THEN float(SubSeq(x, 3, Len(x) - 1))
            ELSE IF isdigit(x) THEN IntV(ParseInt(x))
            ELSE IF Count(x, ".") = 1 /\ isdigit(Remove(x, ".")) THEN float(x)
            ELSE s

\* _inner_row(row) (lines 65-69).  A float has no isdigit: AttributeError.
inner_row(row) ==
    IF row.t = "error" THEN row
    ELSE IF row = None \/ row = StrV(<<>>) THEN StrV(<<>>)
    ELSE IF row.t = "int" THEN IntV(row.m - 1)
    ELSE IF row.t # "str" THEN AttributeError
    ELSE IF isdigit(row.s) THEN IntV(ParseInt(row.s) - 1)
    ELSE row

\* col.lstrip("$")
RECURSIVE lstrip(_, _)
lstrip(s, ch) == IF s # <<>> /\ Head(s) = ch THEN lstrip(Tail(s), ch) ELSE s

\* The value in base 26 of a character after col.translate(RADIX26): a letter
\* counts its place in the alphabet from 0 (A -> "0" .. J -> "9", K -> "A" ..
\* Z -> "P"), a digit counts itself; -1 for a character int(_, 26) rejects.
Radix26Value(ch) ==
    IF ch \in Range(Letters) THEN IndexOf(Letters, ch) - 1
    ELSE IF IsDigit(ch) THEN IndexOf(DigitChars, ch) - 1
    ELSE -1

RECURSIVE Base26(_)
Base26(s) ==
    IF s = <<>> THEN 0
    ELSE 26 * Base26(SubSeq(s, 1, Len(s) - 1)) + Radix26Value(s[Len(s)])

\* (0, 1, 27, 703)
Offsets == <<0, 1, 27, 703>>

\* _inner_col(col) (lines 54-62).
inner_col(col) ==
    IF col.t = "error" THEN col
    ELSE IF col = None \/ col = StrV(<<>>) THEN StrV(<<>>)
    ELSE IF col.t = "int" THEN IntV(col.m - 1)
    ELSE IF col.t # "str" THEN AttributeError
    ELSE IF isdigit(col.s) THEN IntV(ParseInt(col.s) - 1)
    ELSE LET c == lstrip(col.s, "$")
         IN IF c = <<>> \/ \E i \in DOMAIN c : Radix26Value(c[i]) < 0
            THEN StrV(c)
            ELSE IF Len(c) >= Len(Offsets) THEN IndexError
            ELSE IntV(Base26(c) + Offsets[Len(c) + 1] - 1)

\* The length of the longest run of digits s ends with.
RECURSIVE DigitsAtEnd(_)
DigitsAtEnd(s) ==
    IF s = <<>> \/ ~IsDigit(s[Len(s)]) THEN 0
    ELSE 1 + DigitsAtEnd(SubSeq(s, 1, Len(s) - 1))

\* decompose_address(s) (lines 84-89): <<row, col>> as strings, or IndexError.
\* R1C1FORMAT is [Rr](\d+)[Cc](\d+)$ and A1FORMAT is ([A-Z]+)(\d+)$, both
\* matched from the start of s.
decompose_address(s) ==
    LET n == DigitsAtEnd(s)
        rest == SubSeq(s, 1, Len(s) - n)
        m == DigitsAtEnd(SubSeq(rest, 1, Len(rest) - 1))
    IN IF /\ n >= 1 /\ Len(rest) >= 3 /\ rest[Len(rest)] = "C"
          /\ m >= 1 /\ Len(rest) = m + 2 /\ rest[1] = "R"
       THEN <<StrV(SubSeq(rest, 2, Len(rest) - 1)),
              StrV(SubSeq(s, Len(s) - n + 1, Len(s)))>>
       ELSE IF /\ n >= 1 /\ rest # <<>>
               /\ \A i \in DOMAIN rest : rest[i] \in Range(Letters)
       THEN <<StrV(SubSeq(s, Len(s) - n + 1, Len(s))), StrV(rest)>>
       ELSE <<IndexError, IndexError>>

\* x or default
Or(x, default) == IF Truthy(x) THEN x ELSE default

\* NBSP = "\xa0": the no-break space, written here as one character token.
NBSP == "nbsp"

\* s.replace(a, b) for single characters a and b.
Replace(s, a, b) == [i \in DOMAIN s |-> IF s[i] = a THEN b ELSE s[i]]

\* str(v or "").replace(NBSP, " ") (line 113)
Cell(v) == Replace(IF Truthy(v) THEN str(v) ELSE <<>>, NBSP, " ")

\* A field as csv.writer writes it under the default QUOTE_MINIMAL: quoted
\* when it holds the delimiter, the quote character or a character of the
\* line terminator, a quote character inside it being doubled.
RECURSIVE DoubleQuotes(_)
DoubleQuotes(s) ==
    IF s = <<>> THEN <<>>
    ELSE (IF Head(s) = "\"" THEN <<"\"", "\"">> ELSE <<Head(s)>>)
         \o DoubleQuotes(Tail(s))

QuoteField(s) ==
    IF \E i \in DOMAIN s : s[i] \in {",", "\"", NEWLINE}
    THEN <<"\"">> \o DoubleQuotes(s) \o <<"\"">>
    ELSE s

\* csv.DictWriter(file, fieldnames, lineterminator="\n").writerow(rowdict),
\* rowdict having the keys keys with the values vals: the text written, or
\* ValueError when rowdict has a key that is not a field name.  A field name
\* rowdict lacks is written as "", a row of one empty field as a pair of
\* quotes.
writerow(names, keys, vals) ==
    IF \E i \in DOMAIN keys : keys[i] \notin Range(names)
    THEN [exc |-> ValueError, text |-> <<>>]
    ELSE LET row == [j \in DOMAIN names |->
                        IF \E i \in DOMAIN keys : keys[i] = names[j]
                        THEN vals[CHOOSE i \in DOMAIN keys : keys[i] = names[j]]
                        ELSE <<>>]
         IN [exc |-> None,
             text |-> (IF Len(row) = 1 /\ row[1] = <<>> THEN <<"\"", "\"">>
                       ELSE Join(<<",">>, [j \in DOMAIN row |->
                                              QuoteField(row[j])]))
                      \o <<NEWLINE>>]

\* The loop `for row in table` of main (lines 111-114) from the reader state
\* s on: each record the generator yields is written as one line of text.
\* wnames are the writer's field names, text what was written so far.
RECURSIVE WriteRows(_, _, _, _, _, _)

\* One turn of the loop, a being the reader state after next(generator): the
\* values of the record are made strings and the record is written.
WriteRow(sh, c, names, wnames, a, text) ==
    LET line == writerow(wnames, a.rec.keys,
                         [i \in DOMAIN a.rec.vals |-> Cell(a.rec.vals[i])])
    IN IF a.how # "yield" THEN [state |-> a, stdout |-> text]
       ELSE IF line.exc # None
       THEN [state |-> [a EXCEPT !.raised = line.exc], stdout |-> text]
       ELSE WriteRows(sh, c, names, wnames,
                      [gen |-> a.gen, cursor |-> a.cursor,
                       CSVRecord |-> a.CSVRecord, out |-> a.out,
                       calls |-> a.calls, ended |-> a.ended],
                      text \o line.text)

WriteRows(sh, c, names, wnames, s, text) ==
    WriteRow(sh, c, names, wnames, advance(sh, c, names, s), text)

\* A reader state before any iteration, n rows taken from self._rows.
Fresh(n) ==
    [gen |-> NoGen, cursor |-> n, CSVRecord |-> <<>>, out |-> <<>>,
     calls |-> <<>>, ended |-> <<>>, raised |-> None]

\* main after table = reader.DictReader(...) (lines 105-114), got being what
\* _get_fields returned or raised in the constructor: the header is written
\* when asked for, then the rows.
Table(sh, c, got, output_header) ==
    IF got.exc # None
    THEN [pc |-> "failed", cfg |-> c, fieldnames |-> <<>>, iters |-> 0,
          run |-> [state |-> [Fresh(HeaderRowsTaken(sh, c.start_row,
                                                    c.header_rows))
                              EXCEPT !.raised = got.exc],
                   stdout |-> <<>>]]
    ELSE LET wnames == [i \in DOMAIN got.fields |->
                           Replace(got.fields[i], NBSP, " ")]
         IN [pc |-> "ready", cfg |-> c, fieldnames |-> got.fields, iters |-> 1,
             run |-> WriteRows(sh, c, got.fields, wnames,
                               [Fresh(c.header_rows)
                                EXCEPT !.gen.st = "created", !.gen.it = 1],
                               IF output_header
                               THEN writerow(wnames, wnames, wnames).text
                               ELSE <<>>)]

\* Reader(book, sheet, start_row=start[0], stop_row=stop[0], ...): the
\* arguments main gives the constructor (lines 100-104).
DictReaderArgs(start, stop, header_rows, empty_value, repeat, raw) ==
    [start_row |-> start[1].m, stop_row |-> stop[1],
     start_col |-> start[2].m, stop_col |-> stop[2],
     header_rows |-> header_rows, empty |-> empty_value,
     repeat |-> repeat, trim |-> ~raw, shape |-> "DictReader"]

\* main(sheetspec, start, stop, header_rows, empty_value, repeat, raw,
\* file=sys.stdout, output_header) (lines 92-114) on the workbook whose
\* leftmost sheet is sh: a DictReader is built over the sheet, the header is
\* written when asked for, and the table is read to its end, every record
\* written as a line.  The result is the reader's state and the text
\* written.  BaseReader.__init__ raises TypeError at start_row + 1 or
\* start_col + 1 when a start is not an int (reader.py lines 96-97).
main(sh, mr, start, stop, header_rows, empty_value, repeat, raw, output_header) ==
    IF start[1].t # "int" \/ start[2].t # "int"
    THEN [pc |-> "failed", cfg |-> [shape |-> "none"], fieldnames |-> <<>>,
          iters |-> 0,
          run |-> [state |-> [Fresh(0) EXCEPT !.raised = TypeError],
                   stdout |-> <<>>]]
    ELSE Table(sh,
               DictReaderArgs(start, stop, header_rows, empty_value, repeat,
                              raw),
               get_fields(sh, mr, start[1].m, start[2].m, stop[2],
                          header_rows),
               output_header)

\* __main__ (lines 120-132) up to the call of main, with the one option opt
\* given the value arg: the resolved start and stop rows and columns and the
\* empty value, or the exception raised.
resolve(opt, arg) ==
    LET given(o) == IF opt = o /\ arg # <<>> THEN StrV(arg) ELSE None
        start == IF Truthy(given("--start"))
                 THEN decompose_address(arg) ELSE <<None, None>>
        stop == IF Truthy(given("--stop"))
                THEN decompose_address(arg) ELSE <<None, None>>
        sr0 == IF Truthy(given("--start-row")) THEN given("--start-row")
               ELSE start[1]
        er0 == IF Truthy(given("--stop-row")) THEN given("--stop-row")
               ELSE stop[1]
        sc0 == IF Truthy(given("--start-col")) THEN given("--start-col")
               ELSE start[2]
        ec0 == IF Truthy(given("--stop-col")) THEN given("--stop-col")
               ELSE stop[2]
        sr == inner_row(eval(Or(sr0, IntV(1))))
        sc == inner_col(eval(Or(sc0, StrV(<<"A">>))))
        er == inner_row(eval(Or(er0, StrV(<<>>))))
        ec == inner_col(eval(Or(ec0, StrV(<<>>))))
        ev == IF given("--empty") = None THEN StrV(<<>>)
              ELSE eval(given("--empty"))
        all == <<start[1], stop[1], sr, sc, er, ec, ev>>
        bad == {i \in DOMAIN all : all[i].t = "error"}
    IN IF bad # {}
       THEN [exc |-> all[CHOOSE i \in bad : \A j \in bad : i <= j],
             sr |-> None, sc |-> None, er |-> None, ec |-> None,
             empty |-> None]
       ELSE [exc |-> None, sr |-> sr, sc |-> sc, er |-> er, ec |-> ec,
             empty |-> ev]

\* ------------------------------------------------------------ state
\*
\* sheet, merges   the worksheet: its rows of cell values, its merged ranges
\* cfg             the constructor's arguments, and the reader's class
\* pc              "new" before BaseReader.__init__, then "ready", or "failed"
\*                 when __init__ raised
\* cursor          self._rows: how many rows the sheet's row generator has
\*                 delivered
\* fieldnames      self.fieldnames
\* CSVRecord       self.CSVRecord: <<>> while unset, else <<field names>>
\* gen             the frames of the generators the calls of iter(reader)
\*                 returned, in the order of the calls; all of them take
\*                 their rows from self._rows (from: the sheet row a
\*                 generator's first next() found self._rows at)
\* iters           how many times iter(reader) was called
\* out             history: the records yielded, with the iteration, the sheet
\*                 row (counted from 0) each came from and the sheet row the
\*                 iteration began at
\* raised          history: the exception the latest call raised, or None
\* calls           history: what the caller's stop_row predicate was called
\*                 with, and the list of all values of that row
\* ended           history: how each iteration ended, and at which sheet row
\* cmd             the command line: the option given and its value, the
\*                 flags, the boundaries __main__ resolved (res), and the text
\*                 written to sys.stdout

NoRes == [exc |-> None, sr |-> None, sc |-> None, er |-> None, ec |-> None,
          empty |-> None]
NoCmd == [pc |-> "off", opt |-> "", arg |-> <<>>, header |-> FALSE,
          repeat |-> FALSE, raw |-> FALSE, res |-> NoRes, stdout |-> <<>>]

\* The state before BaseReader.__init__ runs on worksheet sh with merged
\* ranges mr and arguments c.
Before(sh, mr, c) ==
    /\ sheet = sh
    /\ merges = mr
    /\ cfg = c
    /\ pc = "new"
    /\ cursor = 0
    /\ fieldnames = <<>>
    /\ CSVRecord = <<>>
    /\ gen = <<>>
    /\ iters = 0
    /\ out = <<>>
    /\ raised = None
    /\ calls = <<>>
    /\ ended = <<>>
    /\ cmd = NoCmd

SeqsUpTo(S, n) == UNION {[1 .. k -> S] : k \in 1 .. n}

\* Worksheets for the row scanner: one header row over three columns, then up
\* to MaxRows data rows out of DataRows.
HeaderNVW == <<StrV(<<"N">>), StrV(<<"V">>), StrV(<<"W">>)>>

DataRows ==
    { <<StrV(<<"X">>), IntV(1), FloatV(3, 0)>>,
      <<None, StrV(<<>>), Datetime(1, 0)>>,
      <<StrV(<<"E">>), None, FloatV(15, 1)>>,
      <<IntV(0), StrV(<<"E">>), Datetime(1, 60)>> }

StopRows == {None, IntV(2), StrV(<<"E">>), Callable}
Empties == {None, StrV(<<>>), StrV(<<"-">>)}

RowConfigs(stops) ==
    [start_row : {0}, stop_row : stops, start_col : {0},
     stop_col : {None, IntV(2)}, header_rows : {1},
     empty : Empties, repeat : BOOLEAN, trim : BOOLEAN,
     shape : {"Reader", "DictReader"}]

InitRows ==
    \E data \in SeqsUpTo(DataRows, MaxRows), c \in RowConfigs(StopRows) :
        Before(<<HeaderNVW>> \o data, {}, c)

\* The same with stop_row left unset.
InitUnset ==
    \E data \in SeqsUpTo(DataRows, MaxRows), c \in RowConfigs({None}) :
        Before(<<HeaderNVW>> \o data, {}, c)

\* Worksheets for the header builder: an optional row above the table, one or
\* two header rows out of HeaderRows, two data rows; at most one merged range.
HeaderRows ==
    { <<StrV(<<"A">>), StrV(<<"A">>), StrV(<<"A", "_", "1">>)>>,
      <<StrV(<<"T">>), None, StrV(<<"Q">>)>>,
      <<StrV(<<"A">>), StrV(<<"B", NEWLINE, "C">>), None>>,
      <<StrV(<<>>), FloatV(2, 0), IntV(0)>>,
      <<StrV(<<"A", "_", "1">>), StrV(<<"A">>), StrV(<<"A">>)>> }

TitleRow == <<StrV(<<"J">>), StrV(<<"J">>), StrV(<<"J">>)>>

FixedData == << <<StrV(<<"X">>), IntV(1), FloatV(3, 0)>>,
                <<IntV(7), None, StrV(<<"E">>)>> >>

MergeRange(r1, r2, c1, c2) ==
    [min_row |-> r1, max_row |-> r2, min_col |-> c1, max_col |-> c2]

MergeSets ==
    { {}, {MergeRange(1, 1, 1, 2)}, {MergeRange(1, 1, 2, 3)},
      {MergeRange(1, 2, 1, 1)}, {MergeRange(1, 2, 3, 3)},
      {MergeRange(2, 2, 2, 3)} }

\* A worksheet keeps the value of a merged range in its top-left cell; the
\* other cells of the range are empty.
Merged(grid, mr) ==
    [i \in DOMAIN grid |-> [j \in DOMAIN grid[i] |->
        IF \E r \in mr : /\ r.min_row <= i /\ i <= r.max_row
                         /\ r.min_col <= j /\ j <= r.max_col
                         /\ ~(i = r.min_row /\ j = r.min_col)
        THEN None ELSE grid[i][j]]]

FieldConfigs ==
    [start_row : {0, 1}, stop_row : {None}, start_col : {0, 1, 4},
     stop_col : {None, IntV(2), StrV(<<"Q">>)}, header_rows : {1, 2},
     empty : {None}, repeat : {FALSE}, trim : {TRUE},
     shape : {"Reader", "DictReader"}]

InitFields ==
    \E c \in FieldConfigs, mr \in MergeSets :
        \E head \in [1 .. c.header_rows -> HeaderRows] :
            Before(Merged((IF c.start_row = 1 THEN <<TitleRow>> ELSE <<>>)
                          \o head \o FixedData, mr), mr, c)

\* BaseReader.__init__ (lines 88-99): self._rows is created, _get_fields takes
\* the header rows from it.
init ==
    /\ pc = "new"
    /\ LET got == get_fields(sheet, merges, cfg.start_row, cfg.start_col,
                             cfg.stop_col, cfg.header_rows)
       IN /\ pc' = IF got.exc = None THEN "ready" ELSE "failed"
          /\ fieldnames' = got.fields
          /\ raised' = got.exc
    /\ cursor' = HeaderRowsTaken(sheet, cfg.start_row, cfg.header_rows)
    /\ UNCHANGED <<sheet, merges, cfg, CSVRecord, gen, iters, out, calls,
                   ended, cmd>>

\* iter(reader): __iter__ returns a new generator, which has not run yet.  The
\* generators returned before stay as they are.
iter ==
    /\ pc = "ready"
    /\ iters < MaxIters
    /\ iters' = iters + 1
    /\ gen' = Append(gen, [NoGen EXCEPT !.st = "created", !.it = iters + 1])
    /\ raised' = None
    /\ UNCHANGED <<sheet, merges, cfg, pc, cursor, fieldnames, CSVRecord, out,
                   calls, ended>>
    /\ UNCHANGED cmd

\* next(generator) on any of the generators returned so far that has not
\* finished: it runs to its next yield, its end or an exception, taking its
\* row from self._rows wherever the other generators left it.
next ==
    /\ pc = "ready"
    /\ \E i \in DOMAIN gen :
       /\ gen[i].st \in {"created", "suspended"}
       /\ LET a == advance(sheet, cfg, fieldnames,
                           [gen |-> gen[i], cursor |-> cursor,
                            CSVRecord |-> CSVRecord, out |-> out,
                            calls |-> calls, ended |-> ended])
          IN
          /\ gen' = [gen EXCEPT ![i] = a.gen]
          /\ cursor' = a.cursor
          /\ CSVRecord' = a.CSVRecord
          /\ raised' = a.raised
          /\ out' = a.out
          /\ calls' = a.calls
          /\ ended' = a.ended
    /\ UNCHANGED <<sheet, merges, cfg, pc, fieldnames, iters, cmd>>

Next == init \/ iter \/ next

\* The command line: one option with a value of up to MaxLen characters, and
\* the flags --header, --repeat and --raw as CmdFlags has them; --header-rows
\* has its default, "1".
\* No value names the row or the column 0, which is before the sheet's first.
CmdChars == {"T", "N", "R", "C", ":", "(", ")", ".", "1", "2"}

Options == {"--start", "--stop", "--start-row", "--stop-row", "--start-col",
            "--stop-col", "--empty"}

CmdFlags ==
    { [header |-> TRUE, repeat |-> FALSE, raw |-> FALSE],
      [header |-> FALSE, repeat |-> TRUE, raw |-> FALSE],
      [header |-> TRUE, repeat |-> TRUE, raw |-> TRUE] }

\* The leftmost sheet of the workbook SHEETSPEC names: a header row and four
\* data rows, the third with a blank first cell; the last header cell ends
\* with tail.
CmdSheet(tail) ==
    << <<StrV(<<"N">>), StrV(<<"T", ".">>), StrV(<<"C">> \o tail)>>,
       <<StrV(<<"R">>), IntV(1), FloatV(3, 0)>>,
       <<StrV(<<"C">>), None, StrV(<<"1", ",", NBSP, "2">>)>>,
       <<None, FloatV(15, 1), IntV(0)>>,
       <<StrV(<<"1">>), StrV(<<>>), None>> >>

\* Before the command runs: the workbook, its last header cell with or
\* without a no-break space.
InitCmd ==
    /\ sheet \in {CmdSheet(<<>>), CmdSheet(<<NBSP>>)}
    /\ merges = {}
    /\ cfg = [shape |-> "none"]
    /\ pc = "off"
    /\ cursor = 0
    /\ fieldnames = <<>>
    /\ CSVRecord = <<>>
    /\ gen = <<>>
    /\ iters = 0
    /\ out = <<>>
    /\ raised = None
    /\ calls = <<>>
    /\ ended = <<>>
    /\ cmd = [NoCmd EXCEPT !.pc = "start"]

\* __main__() (lines 117-139) with the arguments docopt returns, the option
\* opt with the value arg and the flags: the boundaries are resolved, then
\* main builds a DictReader with them, reads the table to its end and writes
\* it to sys.stdout.  An exception ends the program.
dunder_main ==
    /\ cmd.pc = "start"
    /\ \E opt \in Options, arg \in SeqsUpTo(CmdChars, MaxLen) \cup {<<>>},
          flags \in CmdFlags :
       \E res \in {resolve(opt, arg)} :
          LET ran == [cmd EXCEPT !.pc = "exited", !.opt = opt, !.arg = arg,
                                 !.header = flags.header,
                                 !.repeat = flags.repeat, !.raw = flags.raw,
                                 !.res = res]
          IN
          IF res.exc # None
          THEN /\ cmd' = ran
               /\ raised' = res.exc
               /\ UNCHANGED <<cfg, pc, cursor, fieldnames, CSVRecord, gen,
                              iters, out, calls, ended>>
          ELSE \E m \in {main(sheet, merges, <<res.sr, res.sc>>,
                               <<res.er, res.ec>>, 1, res.empty, flags.repeat,
                               flags.raw, flags.header)} :
                  /\ cmd' = [ran EXCEPT !.stdout = m.run.stdout]
                  /\ cfg' = m.cfg
                  /\ pc' = m.pc
                  /\ fieldnames' = m.fieldnames
                  /\ iters' = m.iters
                  /\ cursor' = m.run.state.cursor
                  /\ CSVRecord' = m.run.state.CSVRecord
                  /\ gen' = IF m.iters = 0 THEN <<>> ELSE <<m.run.state.gen>>
                  /\ out' = m.run.state.out
                  /\ raised' = m.run.state.raised
                  /\ calls' = m.run.state.calls
                  /\ ended' = m.run.state.ended
    /\ UNCHANGED <<sheet, merges>>

NextCmd == dunder_main

SpecCmd == InitCmd /\ [][NextCmd]_vars

\* The row scanner over every configuration of RowConfigs.
Spec == InitRows /\ [][Next]_vars

\* The row scanner with stop_row unset.
SpecUnset == InitUnset /\ [][Next]_vars

\* The header builder over headers with merged ranges.
SpecFields == InitFields /\ [][Next]_vars

\* ------------------------------------------------------------ properties

\* The values of sheet row r (counted from 0) as the row scanner has them
\* after empty substitution, before filling and trimming.
ValuesAt(r) ==
    EmptySubst(SubSeq(sheet[r + 1], cfg.start_col + 1, Len(sheet[r + 1])),
               cfg.empty)

\* A value as the record shows it: trimmed when trim is on.
Shown(v) == IF cfg.trim THEN TrimValue(v) ELSE v

\* The record an iteration yielded immediately before its record out[i], if
\* any: it holds the immediately preceding accepted row of out[i].
Preceding(i) ==
    {p \in 1 .. i - 1 :
        /\ out[p].it = out[i].it
        /\ \A q \in p + 1 .. i - 1 : out[q].it # out[i].it}

\* C1: with repeat-fill on, whatever the trim flag, the record of every data
\* row after the first holds, in each column, the preceding record's value
\* where the row's cell was blank and the row's own value where it was not.
C1_RepeatFill ==
    cfg.repeat =>
        \A i \in DOMAIN out : \A p \in Preceding(i) :
            \A j \in DOMAIN fieldnames :
                /\ j <= Len(out[i].rec.vals)
                /\ out[i].rec.vals[j] =
                       IF Blank(ValuesAt(out[i].row)[j])
                       THEN out[p].rec.vals[j]
                       ELSE Shown(ValuesAt(out[i].row)[j])

\* C1 holds of the code with trim off: the divergence is the trim flag's.
C1_RepeatFillUntrimmed == (cfg.repeat /\ ~cfg.trim) => C1_RepeatFill

\* C2: with repeat-fill on, the record of the first data row holds the values
\* it has with repeat-fill off: every cell keeps its value, a blank cell the
\* configured empty substitute.
C2_FirstRowKept ==
    (cfg.repeat /\ out # <<>> /\ out[1].it = 1) =>
        /\ out[1].row = cfg.start_row + cfg.header_rows
        /\ \A j \in DOMAIN fieldnames :
              /\ j <= Len(out[1].rec.vals)
              /\ out[1].rec.vals[j] = Shown(ValuesAt(out[1].row)[j])

\* C3: once an iteration has ended at a row (the stop condition fired there,
\* or the sheet was exhausted), neither that row nor a later one is yielded by
\* the reader, by any iteration; with an integer stop_row s only rows before s
\* are ever yielded.
C3_EndsForGood ==
    /\ \A e \in DOMAIN ended : ended[e].how \in {"break", "exhausted"} =>
          \A o \in DOMAIN out : out[o].row < ended[e].row
    /\ (pc = "ready" /\ cfg.stop_row.t = "int") =>
          \A o \in DOMAIN out :
              /\ cfg.start_row + cfg.header_rows <= out[o].row
              /\ out[o].row < cfg.stop_row.m

\* C3 holds of the code within the first iteration.
C3_EndsFirstIteration ==
    \A e \in DOMAIN ended : ended[e].how \in {"break", "exhausted"} =>
        \A o \in DOMAIN out :
            (out[o].it = 1 /\ ended[e].it = 1) => out[o].row < ended[e].row

\* C6: a callable stop_row is called with the list of all values of the row,
\* and no row is yielded for which it answers true over the whole row.
C6_PredicateOverWholeRow ==
    /\ \A i \in DOMAIN calls : calls[i].arg = calls[i].row
    /\ (pc = "ready" /\ cfg.stop_row.t = "callable") =>
          \A o \in DOMAIN out : ~criteria(List(ValuesAt(out[o].row)))

\* C9: with an integer stop_col c >= start_col inside the sheet and repeat-fill
\* off, there are c - start_col field names, and every accepted data row
\* yields a record, in either record shape, that holds exactly the values of
\* columns start_col .. c - 1.
C9_StopColExclusive ==
    (/\ pc = "ready" /\ cfg.stop_col.t = "int" /\ ~cfg.repeat
     /\ cfg.stop_col.m >= cfg.start_col /\ cfg.stop_col.m < Len(sheet[1])) =>
        LET n == cfg.stop_col.m - cfg.start_col
        IN /\ Len(fieldnames) = n
           /\ \A e \in DOMAIN ended : ended[e].how # "raise"
           /\ \A o \in DOMAIN out :
                 /\ Len(out[o].rec.keys) = n
                 /\ out[o].rec.vals =
                        [j \in 1 .. n |-> Shown(ValuesAt(out[o].row)[j])]

\* C9 holds of the code for the ordered mapping of DictReader.
C9_StopColExclusiveDict == cfg.shape = "DictReader" => C9_StopColExclusive

FirstCell(r) == ValuesAt(r)[1]

\* C10: with stop_row unset, an iteration ends at the first data row whose
\* first cell, after empty substitution, is falsy, and yields neither that row
\* nor a row after it: every row from the iteration's first to a yielded one
\* has a truthy first cell, a row that ended the iteration by the stop
\* condition has a falsy first cell and is the first such row, and the
\* iteration yields nothing at or after the row it ended at.
C10_UnsetStopsAtFalsy ==
    (pc = "ready" /\ cfg.stop_row = None) =>
        /\ \A o \in DOMAIN out :
              \A r \in out[o].from .. out[o].row : Truthy(FirstCell(r))
        /\ \A e \in DOMAIN ended : ended[e].how = "break" =>
              /\ ~Truthy(FirstCell(ended[e].row))
              /\ \A r \in ended[e].from .. ended[e].row - 1 :
                    Truthy(FirstCell(r))
        /\ \A e \in DOMAIN ended : \A o \in DOMAIN out :
              out[o].it = ended[e].it => out[o].row < ended[e].row

\* C10 holds of the code for the rows an iteration itself takes from
\* self._rows: a row it yields has a truthy first cell, a row it stops at has
\* a falsy one, and it takes no row after that.  A row another iteration took
\* in between does not count.
C10_UnsetStopsAtFalsyOwnRows ==
    (pc = "ready" /\ cfg.stop_row = None) =>
        /\ \A o \in DOMAIN out : Truthy(FirstCell(out[o].row))
        /\ \A e \in DOMAIN ended :
              /\ ended[e].how = "break" => ~Truthy(FirstCell(ended[e].row))
              /\ ended[e].how = "raise" => Truthy(FirstCell(ended[e].row))
        /\ \A e \in DOMAIN ended : \A o \in DOMAIN out :
              out[o].it = ended[e].it => out[o].row < ended[e].row

\* The header rows as _get_fields takes them from self._rows.
HeaderTaken ==
    [n \in 1 .. cfg.header_rows |->
        IterRow(sheet, cfg.start_row, cfg.start_col, n)]

\* Columns the header rows deliver, counted from the start column:
\* max(len(r) for r in rows) (line 161), 0 when the start column is beyond
\* the sheet's last.
Delivered == MaxLenOf(HeaderTaken)

\* The joined header name of delivered column col (counted from 0), empty
\* when no header row contributes to it.
JoinedName(col) ==
    Field(merges, HeaderTaken, cfg.start_row, cfg.start_col, cfg.header_rows,
          col)

\* C4, as claimed: with stop_col unset no column ends the field names: there
\* is a name for every delivered column, and a column whose joined header name
\* is empty is named by its column letter.
C4_UnsetNeverStops ==
    (pc = "ready" /\ cfg.stop_col = None) =>
        /\ Len(fieldnames) = Delivered
        /\ \A col \in 0 .. Delivered - 1 : JoinedName(col) = <<>> =>
              StartsWith(fieldnames[col + 1],
                         get_column_letter(cfg.start_col + col + 1))

\* What the code does instead of C4: with stop_col unset the column stop
\* condition is "the joined header name is empty": the field names are those
\* of the columns before the first column whose joined header name is empty
\* (of every delivered column when there is none), each the column's joined
\* name, with a subscript where it repeats an earlier one.
C4_UnsetStopsAtEmptyName ==
    (pc = "ready" /\ cfg.stop_col = None) =>
        /\ Len(fieldnames) <= Delivered
        /\ \A col \in 0 .. Len(fieldnames) - 1 :
              /\ JoinedName(col) # <<>>
              /\ StartsWith(fieldnames[col + 1], JoinedName(col))
        /\ Len(fieldnames) < Delivered => JoinedName(Len(fieldnames)) = <<>>

\* C5: no two field names are equal.
C5_UniqueNames ==
    pc = "ready" =>
        \A i, j \in DOMAIN fieldnames :
            i # j => fieldnames[i] # fieldnames[j]

\* C5's case: the header A, A, A_1, where the subscript of the second A meets
\* the third name.
C5_Witness ==
    /\ pc = "ready"
    /\ HeaderTaken = << <<StrV(<<"A">>), StrV(<<"A">>), StrV(<<"A", "_", "1">>)>> >>
    /\ fieldnames = << <<"A">>, <<"A", "_", "1">>, <<"A", "_", "1", "_", "1">> >>

\* C7: wherever the table starts, a header cell inside a merged range adds the
\* value of the range's top-left cell on the range's top row and nothing on
\* its other rows.  (The cells are those of the columns that got a name, or of
\* any delivered column when __init__ raised.)
C7_MergedHeaderCell ==
    pc # "new" =>
        \A row \in 0 .. cfg.header_rows - 1 : \A col \in 0 .. Delivered - 1 :
            LET absrow == cfg.start_row + row
                abscol == cfg.start_col + col
                ma == mergearea(merges, absrow, abscol)
            IN (ma # <<>> /\ (pc = "failed" \/ col < Len(fieldnames))) =>
                  /\ pc = "ready"
                  /\ HeaderCell(merges, HeaderTaken, cfg.start_row,
                                cfg.start_col, row, col)
                       = IF ma[1] = absrow THEN sheet[ma[1] + 1][ma[3] + 1]
                         ELSE None

\* C7 holds of the code for tables that start at the first column.
C7_MergedHeaderCellFirstColumn == cfg.start_col = 0 => C7_MergedHeaderCell

\* C8: a stop row or stop column given with a type marker resolves to a
\* literal of that type: T:x and T(x) to the string x, N:x, N(x) and a bare
\* decimal to the number x.
C8_TypedLiteral ==
    (cmd.pc = "exited" /\ cmd.opt \in {"--stop-row", "--stop-col"}) =>
        LET a == cmd.arg
            got == IF cmd.opt = "--stop-row" THEN cmd.res.er ELSE cmd.res.ec
            is(v) == cmd.res.exc = None /\ got = v
        IN /\ StartsWith(a, <<"T", ":">>) => is(StrV(SubSeq(a, 3, Len(a))))
           /\ (StartsWith(a, <<"T", "(">>) /\ EndsWith(a, <<")">>)) =>
                 is(StrV(SubSeq(a, 3, Len(a) - 1)))
           /\ (StartsWith(a, <<"N", ":">>) /\ FloatOk(SubSeq(a, 3, Len(a)))) =>
                 is(float(SubSeq(a, 3, Len(a))))
           /\ (/\ StartsWith(a, <<"N", "(">>) /\ EndsWith(a, <<")">>)
               /\ FloatOk(SubSeq(a, 3, Len(a) - 1))) =>
                 is(float(SubSeq(a, 3, Len(a) - 1)))
           /\ (Count(a, ".") = 1 /\ isdigit(Remove(a, "."))) => is(float(a))

\* C8 holds of _eval alone, as --empty shows: the divergence is _inner_row's
\* and _inner_col's.
C8_TypedLiteralEmpty ==
    (cmd.pc = "exited" /\ cmd.opt = "--empty") =>
        LET a == cmd.arg
        IN /\ StartsWith(a, <<"T", ":">>) =>
                 cmd.res.empty = StrV(SubSeq(a, 3, Len(a)))
           /\ (StartsWith(a, <<"N", ":">>) /\ FloatOk(SubSeq(a, 3, Len(a)))) =>
                 cmd.res.empty = float(SubSeq(a, 3, Len(a)))

====
